---- MODULE Spec2Model ----
(***************************************************************************)
(* Model of mysqlmcp: the read-only statement classifier                   *)
(* (isReadOnlyQuery), the bounded executors (runQuery,                     *)
(* runQueryForResource) and the resource router (readResource).            *)
(*                                                                         *)
(* A text is a sequence of lexical units.  A unit is one whitespace or     *)
(* punctuation character, or one word; the text it denotes is the          *)
(* concatenation of its units.  strings.ToLower, strings.TrimSpace and     *)
(* strings.Contains are computed on that representation.                   *)
(***************************************************************************)
EXTENDS Integers, Sequences, FiniteSets, TLC

VARIABLES
    h,          \* the queryHandler: config and normalized denySubstrings
    input,      \* classifier run: the query text handed to isReadOnlyQuery
    phase,      \* classifier run: "input" | "classified"
    admitted,   \* classifier run: the value isReadOnlyQuery returned
    dataset,    \* number of rows every statement's result set holds
    pool,       \* sql.DB: connection -> owning request, or "free"
    req,        \* request slot -> state of the handler running in it
    cli         \* the CLI client: state of one call of run

vars == <<h, input, phase, admitted, dataset, pool, req, cli>>

(***************************************************************************)
(* Bounds                                                                  *)
(***************************************************************************)
MaxLen == 3         \* longest enumerated query text, in units
MaxDbRows == 3      \* largest underlying result set, in rows

(***************************************************************************)
(* strings                                                                 *)
(***************************************************************************)
UpperToLower ==
    [u \in {"SELECT", "SHOW", "DESCRIBE", "EXPLAIN", "INSERT", "UNION", "FROM",
            "TABLES", "DATABASES", "FOR", "UPDATE", "X"} |->
        CASE u = "SELECT" -> "select"
          [] u = "SHOW" -> "show"
          [] u = "DESCRIBE" -> "describe"
          [] u = "EXPLAIN" -> "explain"
          [] u = "INSERT" -> "insert"
          [] u = "UNION" -> "union"
          [] u = "FROM" -> "from"
          [] u = "TABLES" -> "tables"
          [] u = "DATABASES" -> "databases"
          [] u = "FOR" -> "for"
          [] u = "UPDATE" -> "update"
          [] u = "X" -> "x"]

LowerUnit(u) == IF u \in DOMAIN UpperToLower THEN UpperToLower[u] ELSE u

ToLower(s) == [i \in 1..Len(s) |-> LowerUnit(s[i])]

IsSpace(u) == u \in {" ", "\t"}

RECURSIVE TrimLeft(_)
TrimLeft(s) ==
    IF s # <<>> /\ IsSpace(Head(s)) THEN TrimLeft(Tail(s)) ELSE s

RECURSIVE TrimRight(_)
TrimRight(s) ==
    IF s # <<>> /\ IsSpace(s[Len(s)]) THEN TrimRight(SubSeq(s, 1, Len(s) - 1)) ELSE s

TrimSpace(s) == TrimRight(TrimLeft(s))

Contains(s, substr) ==
    \E i \in 0..(Len(s) - Len(substr)) : SubSeq(s, i + 1, i + Len(substr)) = substr

(***************************************************************************)
(* Configuration                                                           *)
(***************************************************************************)
DefaultDenySubstrings ==
    << <<" ", "into", " ", "outfile">>,
       <<" ", "into", " ", "dumpfile">>,
       <<" ", "for", " ", "update">>,
       <<" ", "lock", " ", "in", " ", "share", " ", "mode">> >>

DefaultMaxRows == 1000

\* the timeout, in seconds, of a request whose configuration gives none
DefaultTimeoutSeconds == 30

\* loadConfig: the deny list of the TOML file, the defaults when it has none;
\* the other settings as the file gives them, 0 when it does not.
loadConfig(file) ==
    [DenySubstrings |-> IF Len(file.deny) = 0 THEN DefaultDenySubstrings ELSE file.deny,
     MaxRows |-> file.maxRows,
     QueryTimeoutSeconds |-> file.timeout,
     MaxOpenConns |-> file.maxOpen]

RECURSIVE normalizeList_keepCase(_)
normalizeList_keepCase(values) ==
    IF values = <<>> THEN <<>>
    ELSE LET trimmed == TrimSpace(Head(values))
             rest == normalizeList_keepCase(Tail(values))
         IN IF trimmed # <<>> THEN <<trimmed>> \o rest ELSE rest

RECURSIVE normalizeList(_)
normalizeList(values) ==
    IF values = <<>> THEN <<>>
    ELSE LET trimmed == TrimSpace(ToLower(Head(values)))
             rest == normalizeList(Tail(values))
         IN IF trimmed # <<>> THEN <<trimmed>> \o rest ELSE rest

\* main: handler := &queryHandler{config: cfg, denySubstrings: normalizeList(...)}
newHandler(file) ==
    LET cfg == loadConfig(file)
    IN [config |-> cfg, denySubstrings |-> normalizeList(cfg.DenySubstrings)]

(***************************************************************************)
(* The SQL parser (vitess sqlparser), on the statement forms the texts of  *)
(* the model can spell.                                                    *)
(***************************************************************************)
Keywords == {"select", "show", "describe", "explain", "insert", "union", "for", "update"}
Punct == {";", ".", "*"}
\* the unit that denotes the backquote character
Backquote == "<backquote>"

Quotes == {"'", Backquote}

IsWord(u) == ~IsSpace(u) /\ u \notin Punct /\ u \notin Quotes

\* index of the first unit equal to q at or after position i, 0 when none
RECURSIVE IndexFrom(_, _, _)
IndexFrom(s, q, i) ==
    IF i > Len(s) THEN 0
    ELSE IF s[i] = q THEN i
    ELSE IndexFrom(s, q, i + 1)

\* last position of the run of word units that starts at position i
RECURSIVE WordEnd(_, _)
WordEnd(s, i) ==
    IF i < Len(s) /\ IsWord(s[i + 1]) THEN WordEnd(s, i + 1) ELSE i

LexError == [err |-> TRUE, toks |-> <<>>]

\* The tokenizer: whitespace separates, a quoted run is one literal or one
\* identifier, adjacent word units are one identifier, keywords fold case.
RECURSIVE Tokenize(_, _)
Tokenize(s, i) ==
    IF i > Len(s) THEN [err |-> FALSE, toks |-> <<>>]
    ELSE IF IsSpace(s[i]) THEN Tokenize(s, i + 1)
    ELSE IF s[i] \in Quotes THEN
        LET j == IndexFrom(s, s[i], i + 1)
        IN IF j = 0 \/ (s[i] = Backquote /\ j = i + 1) THEN LexError
           ELSE LET rest == Tokenize(s, j + 1)
                IN IF rest.err THEN LexError
                   ELSE [err |-> FALSE,
                         toks |-> <<IF s[i] = "'" THEN "STR" ELSE "ID">> \o rest.toks]
    ELSE IF s[i] \in Punct THEN
        LET rest == Tokenize(s, i + 1)
        IN IF rest.err THEN LexError
           ELSE [err |-> FALSE, toks |-> <<s[i]>> \o rest.toks]
    ELSE
        LET j == WordEnd(s, i)
            w == LowerUnit(s[i])
            tok == IF j = i /\ w \in Keywords THEN w ELSE "ID"
            rest == Tokenize(s, j + 1)
        IN IF rest.err THEN LexError
           ELSE [err |-> FALSE, toks |-> <<tok>> \o rest.toks]

Operands == {"ID", "STR", ".", "*"}

IsOperandList(toks) ==
    Len(toks) >= 1 /\ \A i \in 1..Len(toks) : toks[i] \in Operands

\* SELECT operands [FOR UPDATE]
IsSelect(toks) ==
    /\ Len(toks) >= 2
    /\ toks[1] = "select"
    /\ \/ IsOperandList(Tail(toks))
       \/ /\ Len(toks) >= 4
          /\ toks[Len(toks) - 1] = "for"
          /\ toks[Len(toks)] = "update"
          /\ IsOperandList(SubSeq(toks, 2, Len(toks) - 2))

\* select UNION select
IsUnion(toks) ==
    \E i \in 2..(Len(toks) - 1) :
        /\ toks[i] = "union"
        /\ IsSelect(SubSeq(toks, 1, i - 1))
        /\ IsSelect(SubSeq(toks, i + 1, Len(toks)))

ParseError == [err |-> TRUE, kind |-> "none"]
Statement(kind) == [err |-> FALSE, kind |-> kind]

\* command: one statement; the kind is the Go type of the AST root
Command(toks) ==
    IF IsSelect(toks) THEN Statement("Select")
    ELSE IF IsUnion(toks) THEN Statement("Union")
    ELSE IF Len(toks) >= 2 /\ toks[1] = "show" /\ IsOperandList(Tail(toks))
        THEN Statement("Show")
    ELSE IF Len(toks) >= 2 /\ toks[1] \in {"explain", "describe"}
            /\ (IsSelect(Tail(toks)) \/ IsUnion(Tail(toks)))
        THEN Statement("ExplainStmt")
    ELSE IF Len(toks) >= 2 /\ toks[1] \in {"explain", "describe"}
            /\ IsOperandList(Tail(toks))
        THEN Statement("ExplainTab")
    ELSE IF Len(toks) >= 2 /\ toks[1] = "insert" /\ IsOperandList(Tail(toks))
        THEN Statement("Insert")
    ELSE ParseError

\* parser.Parse: any_command is `command semicolon_opt`
Parse(query) ==
    LET lexed == Tokenize(query, 1)
        toks == lexed.toks
    IN IF lexed.err \/ toks = <<>> THEN ParseError
       ELSE IF toks[Len(toks)] = ";" THEN Command(SubSeq(toks, 1, Len(toks) - 1))
       ELSE Command(toks)

\* sqlparser.New(sqlparser.Options{}): the zero Options are always accepted
sqlparserNew == [err |-> FALSE]

\* the statement types that implement the interface sqlparser.Explain
ExplainKinds == {"ExplainStmt", "ExplainTab"}

(***************************************************************************)
(* isReadOnlyQuery                                                         *)
(***************************************************************************)
ContainsSemicolon_trailingOnly(normalized) ==
    normalized # <<>> /\ normalized[Len(normalized)] = ";"

ContainsSemicolon(normalized) == Contains(normalized, <<";">>)

DeniedBy(normalized, denySubstrings) ==
    \E k \in 1..Len(denySubstrings) :
        denySubstrings[k] # <<>> /\ Contains(normalized, denySubstrings[k])

AllowedKind_withInsert(stmt) ==
    stmt.kind \in {"Select", "Union", "Show", "Insert"} \cup ExplainKinds

AllowedKind_noExplainTab(stmt) ==
    stmt.kind \in {"Select", "Union", "Show", "ExplainStmt"}

AllowedKind(stmt) == stmt.kind \in {"Select", "Union", "Show"} \cup ExplainKinds

isReadOnlyQuery_failOpen(query, denySubstrings) ==
    LET normalized == TrimSpace(ToLower(query))
    IN IF normalized = <<>> THEN FALSE
       ELSE IF ContainsSemicolon(normalized) THEN FALSE
       ELSE IF DeniedBy(normalized, denySubstrings) THEN FALSE
       ELSE IF sqlparserNew.err THEN FALSE
       ELSE LET stmt == Parse(query)
            IN IF stmt.err THEN TRUE ELSE AllowedKind(stmt)

isReadOnlyQuery(query, denySubstrings) ==
    LET normalized == TrimSpace(ToLower(query))
    IN IF normalized = <<>> THEN FALSE
       ELSE IF ContainsSemicolon(normalized) THEN FALSE
       ELSE IF DeniedBy(normalized, denySubstrings) THEN FALSE
       ELSE IF sqlparserNew.err THEN FALSE
       ELSE LET stmt == Parse(query)
            IN IF stmt.err THEN FALSE ELSE AllowedKind(stmt)

(***************************************************************************)
(* Inputs                                                                  *)
(***************************************************************************)
Alphabet == {"SELECT", "show", "describe", "insert", " ", ";", "x", "X", "'"}

EnumeratedTexts == UNION {[1..n -> Alphabet] : n \in 0..MaxLen}

\* the texts of TestIsReadOnlyQuery and of the README's statement kinds
SampleTexts ==
    { <<"SELECT", " ", "*", " ", "FROM", " ", "users">>,
      <<"show", " ", "tables">>,
      <<"explain", " ", "select", " ", "*", " ", "from", " ", "users">>,
      <<" ", " ", " ">>,
      <<"select", " ", "1", ";", " ", "select", " ", "2">>,
      <<"insert", " ", "into", " ", "t", " ", "values", " ", "(1)">>,
      <<"select", " ", "*", " ", "from", " ", "t", " ", "for", " ", "update">>,
      <<"SELECT", " ", "*", " ", "FROM", " ", "t", " ", "FOR", " ", "UPDATE">>,
      <<"select", " ", "*", " ", "from", " ", "t", " ", "into", " ", "outfile", " ", "'", "x", "'">>,
      <<"SELECT", " ", "'", ";", "'">>,
      <<"SELECT", " ", "x", " ", "UNION", " ", "SELECT", " ", "x">>,
      <<"DESCRIBE", " ", "t">> }

Texts == EnumeratedTexts \cup SampleTexts

\* deny_substrings as written in the TOML file
DenyFiles ==
    { <<>>,
      << <<" ", "for", " ", "update">>, <<" ", "into", " ", "outfile">> >>,
      << <<" ", "FOR", " ", "UPDATE">> >>,
      << <<" ">> >>,
      << <<>>, <<"X">> >>,
      << <<" ", "show">> >> }

MaxRowsFiles == {0, 1, 2}

\* query_timeout_seconds and max_open_conns as written in the TOML file
TimeoutFiles == {-1, 0, 5}
MaxOpenFiles == {0, 1, 2}

ConfigFiles ==
    [deny : DenyFiles, maxRows : MaxRowsFiles, timeout : TimeoutFiles,
     maxOpen : MaxOpenFiles]

(***************************************************************************)
(* Go values                                                               *)
(***************************************************************************)
\* a slice: nil, or a (possibly empty) sequence of elements
NilSlice == [nil |-> TRUE, elems |-> <<>>]
Slice(elems) == [nil |-> FALSE, elems |-> elems]

\* QueryOutput{}: the zero value
ZeroQueryOutput ==
    [Columns |-> NilSlice, Rows |-> NilSlice, RowCount |-> 0, Truncated |-> FALSE]

\* the output toolErrorResultf builds
toolErrorOutput_nil == ZeroQueryOutput

toolErrorOutput ==
    [Columns |-> Slice(<<>>), Rows |-> Slice(<<>>), RowCount |-> 0, Truncated |-> FALSE]

\* time.Time.UTC().Format(time.RFC3339Nano): the wall clock moved to offset 0
FormatRFC3339NanoUTC(t) == <<"RFC3339Nano", t.wall - t.offset, "Z">>

normalizeValue_keepBytes(value) ==
    IF value.kind = "time"
        THEN [kind |-> "string", v |-> FormatRFC3339NanoUTC(value)]
        ELSE value

normalizeValue(value) ==
    CASE value.kind = "nil" -> value
      [] value.kind = "bytes" -> [kind |-> "string", v |-> value.v]
      [] value.kind = "time" -> [kind |-> "string", v |-> FormatRFC3339NanoUTC(value)]
      [] OTHER -> value

(***************************************************************************)
(* The database: the result set a statement selects                        *)
(***************************************************************************)
\* the engine reads a statement by its first word, in any letter case
Verb(query) == IF query = <<>> THEN "" ELSE LowerUnit(query[1])

\* column names of the result set, by statement kind
ResultColumns(query) ==
    CASE Verb(query) = "select" -> <<"id", "name">>
      [] Verb(query) = "show" -> <<"Name">>
      [] Verb(query) \in {"describe", "explain"} -> <<"Field", "Type">>
      [] OTHER -> <<"value">>

\* the driver value in column j of row i
RawValue(i, j) ==
    LET k == (2 * i + j) % 6
    IN CASE k = 0 -> [kind |-> "nil"]
         [] k = 1 -> [kind |-> "bytes", v |-> <<i, j>>]
         [] k = 2 -> [kind |-> "time", wall |-> 3600 * i, offset |-> 3600 * j]
         [] k = 3 -> [kind |-> "int64", v |-> 10 * i + j]
         [] k = 4 -> [kind |-> "bool", v |-> TRUE]
         [] OTHER -> [kind |-> "string", v |-> <<i, j>>]

RawRow(i, ncols) == [j \in 1..ncols |-> RawValue(i, j)]

(***************************************************************************)
(* Requests and connections                                                *)
(***************************************************************************)
Reqs == {"r1", "r2"}
\* the connections the engine offers to the pool
Conns == {"c1", "c2"}

\* the locator of a request that is not a resource read
NoLocator == [err |-> FALSE, Scheme |-> "", Host |-> "", Path |-> <<>>]

\* no database call of the request has failed
NoFault == [at |-> "", call |-> 0]

IdleReq ==
    [pc |-> "idle", kind |-> "none", uri |-> NoLocator, query |-> <<>>,
     timeout |-> 0, expired |-> FALSE,
     conn |-> "none", tx |-> "none", txReadOnly |-> FALSE,
     rowsOpen |-> FALSE, cursor |-> 0,
     iterErr |-> FALSE, columns |-> <<>>, results |-> <<>>, rowCount |-> 0,
     truncated |-> FALSE, log |-> <<>>, failed |-> FALSE, msg |-> "",
     cause |-> "", goErr |-> FALSE, fault |-> NoFault,
     notFound |-> FALSE, out |-> ZeroQueryOutput]

\* texts submitted to the mysql_query tool
\* a stored function whose body inserts a row: a SELECT that calls it is a
\* statement of kind Select that writes
WritingFunction == "bump_counter()"

ToolQueries ==
    { <<"SELECT", " ", "*", " ", "FROM", " ", "users">>,
      <<"show", " ", "tables">>,
      <<"SHOW", " ", "DATABASES">>,
      <<"SELECT", " ", WritingFunction>>,
      <<"select", " ", "1", ";", " ", "select", " ", "2">> }

\* locators as url.Parse returns them; Path is a text of one-character units
Locators ==
    { [err |-> FALSE, Scheme |-> "mysql", Host |-> "databases", Path |-> <<>>],
      [err |-> FALSE, Scheme |-> "mysql", Host |-> "Tables",
       Path |-> <<"/", "m", "y", "_", "d", "b">>],
      [err |-> FALSE, Scheme |-> "mysql", Host |-> "schema",
       Path |-> <<"/", "m", "y", "_", "d", "b", "/", "t", "1">>],
      [err |-> FALSE, Scheme |-> "mysql", Host |-> "tables",
       Path |-> <<"/", "m", "y", "-", "d", "b", ";", " ", "d", "r", "o", "p">>],
      [err |-> FALSE, Scheme |-> "mysql", Host |-> "tables", Path |-> <<>>],
      [err |-> FALSE, Scheme |-> "mysql", Host |-> "schema",
       Path |-> <<"/", "m", "y", "_", "d", "b">>],
      [err |-> FALSE, Scheme |-> "mysql", Host |-> "databases", Path |-> <<"/", "x">>],
      [err |-> FALSE, Scheme |-> "mysql", Host |-> "users", Path |-> <<>>],
      [err |-> FALSE, Scheme |-> "https", Host |-> "tables", Path |-> <<"/", "d", "b">>],
      [err |-> TRUE, Scheme |-> "", Host |-> "", Path |-> <<>>] }

LowerHost == [x \in {"Tables"} |-> "tables"]

\* strings.ToLower on a scheme or host
ToLowerName(x) == IF x \in DOMAIN LowerHost THEN LowerHost[x] ELSE x

\* strings.TrimPrefix(u.Path, "/")
TrimPrefixSlash(path) ==
    IF path # <<>> /\ Head(path) = "/" THEN Tail(path) ELSE path

\* strings.Split(s, "/")
RECURSIVE Split(_)
Split(s) ==
    LET j == IndexFrom(s, "/", 1)
    IN IF j = 0 THEN <<s>>
       ELSE <<SubSeq(s, 1, j - 1)>> \o Split(SubSeq(s, j + 1, Len(s)))

IdentifierChars ==
    {"a", "b", "d", "m", "o", "p", "r", "t", "x", "y", "A", "Z", "0", "1", "9", "_"}

\* mysqlIdentifierRE.MatchString: ^[A-Za-z0-9_]+$
mysqlIdentifierRE_unanchored(seg) ==
    \E i \in 1..Len(seg) : seg[i] \in IdentifierChars

mysqlIdentifierRE(seg) ==
    Len(seg) >= 1 /\ \A i \in 1..Len(seg) : seg[i] \in IdentifierChars

\* readResource up to the call of runQueryForResource: the canned query of a
\* locator, or the outcome when there is none
Route(u) ==
    IF u.err THEN [outcome |-> "error", query |-> <<>>]
    ELSE IF ToLowerName(u.Scheme) # "mysql" THEN [outcome |-> "notfound", query |-> <<>>]
    ELSE
        LET host == ToLowerName(u.Host)
            trimmedPath == TrimPrefixSlash(u.Path)
            pathParts == IF trimmedPath # <<>> THEN Split(trimmedPath) ELSE <<>>
        IN CASE host = "databases" ->
                    IF Len(pathParts) # 0 THEN [outcome |-> "notfound", query |-> <<>>]
                    ELSE [outcome |-> "query", query |-> <<"SHOW", " ", "DATABASES">>]
             [] host = "tables" ->
                    IF Len(pathParts) # 1 \/ ~mysqlIdentifierRE(pathParts[1])
                        THEN [outcome |-> "notfound", query |-> <<>>]
                    ELSE [outcome |-> "query",
                          query |-> <<"SHOW", " ", "TABLES", " ", "FROM", " ", Backquote>>
                                    \o pathParts[1] \o <<Backquote>>]
             [] host = "schema" ->
                    IF Len(pathParts) # 2
                        THEN [outcome |-> "notfound", query |-> <<>>]
                    ELSE IF ~mysqlIdentifierRE(pathParts[1]) \/ ~mysqlIdentifierRE(pathParts[2])
                        THEN [outcome |-> "notfound", query |-> <<>>]
                    ELSE [outcome |-> "query",
                          query |-> <<"DESCRIBE", " ", Backquote>> \o pathParts[1]
                                    \o <<Backquote, ".", Backquote>> \o pathParts[2]
                                    \o <<Backquote>>]
             [] OTHER -> [outcome |-> "notfound", query |-> <<>>]

(***************************************************************************)
(* The CLI client (cmd/client): the values run works on                    *)
(***************************************************************************)
\* a nil error, and an error with its message
NilError == [nil |-> TRUE, msg |-> <<>>]
Error(msg) == [nil |-> FALSE, msg |-> msg]

\* a nil *mcp.CallToolResult
NoToolResult == [nil |-> TRUE, IsError |-> FALSE, StructuredContent |-> "nil", Content |-> <<>>]

\* run has not been called
NoRun ==
    [pc |-> "off", query |-> "", connected |-> "no", session |-> "none",
     calls |-> 0, closes |-> 0, res |-> NoToolResult, err |-> NilError,
     logged |-> <<>>]

(***************************************************************************)
(* The classifier run: one call of isReadOnlyQuery by a handler built      *)
(* from any configuration file.                                            *)
(***************************************************************************)
InitClassify ==
    /\ \E file \in ConfigFiles :
        /\ file.maxRows = 0 /\ file.timeout = 0 /\ file.maxOpen = 0
        /\ h = newHandler(file)
    /\ input \in Texts
    /\ phase = "input"
    /\ admitted = FALSE
    /\ dataset = 0
    /\ pool = [c \in Conns |-> "free"]
    /\ req = [r \in Reqs |-> IdleReq]
    /\ cli = NoRun

Classify ==
    /\ phase = "input"
    /\ admitted' = isReadOnlyQuery(input, h.denySubstrings)
    /\ phase' = "classified"
    /\ UNCHANGED <<h, input, dataset, pool, req, cli>>

NextClassify == Classify

SpecClassify == InitClassify /\ [][NextClassify]_vars

(***************************************************************************)
(* Properties of the classifier                                            *)
(***************************************************************************)
Classified == phase = "classified"

\* C1: a text that contains ';' anywhere is never admitted, whatever the
\* deny list and whatever statement the text parses as.
Thm_C1_SemicolonRejected ==
    (Classified /\ Contains(input, <<";">>)) => ~admitted

\* a ';' that is inside a string literal of a text that parses as a SELECT
Wit_C1_SemicolonInLiteral ==
    /\ Classified
    /\ Contains(input, <<";">>)
    /\ input[Len(input)] # ";"
    /\ Parse(input) = Statement("Select")
    /\ ~DeniedBy(TrimSpace(ToLower(input)), h.denySubstrings)
    /\ ~admitted

ConfiguredDenyMatches(d) ==
    Contains(TrimSpace(ToLower(input)), ToLower(d))

\* C2 as stated: a text whose normalized form contains a non-empty
\* configured deny substring, compared case-insensitively, is not admitted.
Orig_C2_DenyRejected ==
    (Classified /\ \E k \in 1..Len(h.config.DenySubstrings) :
        LET d == h.config.DenySubstrings[k]
        IN d # <<>> /\ ConfiguredDenyMatches(d)) => ~admitted

\* C2 amended: a text whose normalized form contains, compared
\* case-insensitively, a configured deny substring that is not empty and not
\* whitespace-only is not admitted.
Thm_C2_NonBlankDenyRejected ==
    (Classified /\ \E k \in 1..Len(h.config.DenySubstrings) :
        LET d == h.config.DenySubstrings[k]
        IN TrimSpace(d) # <<>> /\ ConfiguredDenyMatches(d)) => ~admitted

\* a SELECT rejected by a deny substring that was configured in upper case
Wit_C2_UpperCaseDeny ==
    /\ Classified
    /\ \E k \in 1..Len(h.config.DenySubstrings) :
        LET d == h.config.DenySubstrings[k]
        IN d # ToLower(d) /\ ConfiguredDenyMatches(d)
    /\ Parse(input) = Statement("Select")
    /\ ~Contains(input, <<";">>)
    /\ ~admitted

\* C3: an empty or whitespace-only text, a text the parser fails to parse,
\* and any text when the parser cannot be constructed, are not admitted.
Thm_C3_FailClosed ==
    (Classified /\ (TrimSpace(input) = <<>> \/ Parse(input).err \/ sqlparserNew.err))
        => ~admitted

\* a text rejected by the parse error alone
Wit_C3_ParseErrorOnly ==
    /\ Classified
    /\ TrimSpace(input) # <<>>
    /\ ~Contains(input, <<";">>)
    /\ ~DeniedBy(TrimSpace(ToLower(input)), h.denySubstrings)
    /\ Parse(input).err
    /\ ~admitted

\* C4: an admitted text parses to a SELECT, UNION, SHOW or EXPLAIN statement.
Thm_C4_OnlyReadKinds ==
    (Classified /\ admitted) =>
        /\ ~Parse(input).err
        /\ Parse(input).kind \in {"Select", "Union", "Show", "ExplainStmt", "ExplainTab"}

\* an INSERT that passes the ';' and deny checks and is rejected for its kind
Wit_C4_InsertRejected ==
    /\ Classified
    /\ Parse(input) = Statement("Insert")
    /\ ~Contains(input, <<";">>)
    /\ ~DeniedBy(TrimSpace(ToLower(input)), h.denySubstrings)
    /\ ~admitted

\* C5: a text that parses to a SELECT, SHOW, DESCRIBE or EXPLAIN statement
\* and contains no ';' and none of the deny substrings the classifier is
\* given is admitted.
Thm_C5_ReadKindsAdmitted ==
    (/\ Classified
     /\ ~Parse(input).err
     /\ Parse(input).kind \in {"Select", "Show", "ExplainTab", "ExplainStmt"}
     /\ ~Contains(input, <<";">>)
     /\ \A k \in 1..Len(h.denySubstrings) :
            ~Contains(ToLower(input), h.denySubstrings[k]))
        => admitted

\* a DESCRIBE of a table, admitted
Wit_C5_DescribeAdmitted ==
    /\ Classified
    /\ Parse(input) = Statement("ExplainTab")
    /\ LowerUnit(TrimSpace(input)[1]) = "describe"
    /\ admitted

(***************************************************************************)
(* The executors runQuery (kind "tool") and runQueryForResource (kind      *)
(* "resource", entered from readResource).  A step is one call into        *)
(* database/sql with the code that follows it up to the next call; a step  *)
(* that returns runs the deferred rows.Close, conn.Close and cancel.       *)
(***************************************************************************)
effectiveMaxRows(cfgMaxRows) == IF cfgMaxRows <= 0 THEN DefaultMaxRows ELSE cfgMaxRows

\* lines 142-145: the timeout of the request's context, in seconds
effectiveTimeout(cfgSeconds) ==
    IF cfgSeconds <= 0 THEN DefaultTimeoutSeconds ELSE cfgSeconds

\* db.SetMaxOpenConns when max_open_conns is positive: how many connections
\* the pool may have checked out at once
PoolLimit(cfg) == IF cfg.MaxOpenConns > 0 THEN cfg.MaxOpenConns ELSE Cardinality(Conns)

CheckedOut(pl) == {c \in Conns : pl[c] \in Reqs}

\* ctx.Done() of the context every database call of the request is made with
CtxDone_never(q) == FALSE

CtxDone(q) == q.expired

\* the error a failing database call returns
EngineError(q) == IF q.expired THEN "context deadline exceeded" ELSE "engine error"

\* &sql.TxOptions{ReadOnly: true}
TxOptions_readWrite == [ReadOnly |-> FALSE]

TxOptions == [ReadOnly |-> TRUE]

\* the statement changes the dataset when it runs
Writes(query) ==
    \/ Verb(query) = "insert"
    \/ \E i \in 1..Len(query) : query[i] = WritingFunction

\* the engine refuses a writing statement inside a read-only transaction
EngineAccepts(q) == ~(Writes(q.query) /\ q.txReadOnly)

\* the dataset after a committed write
Written(n) == IF n < MaxDbRows THEN n + 1 ELSE n

\* what a failing executor returns as QueryOutput
FailureOutput(kind) == IF kind = "tool" THEN toolErrorOutput ELSE ZeroQueryOutput

\* defer conn.Close(): the connection goes back to the pool
ReleaseConn_leak(pl, c) == pl

ReleaseConn(pl, c) == IF c = "none" THEN pl ELSE [pl EXCEPT ![c] = "free"]

\* the deferred calls a return runs, in order
Deferred(q) ==
    (IF q.rowsOpen THEN <<"rows.Close">> ELSE <<>>)
        \o (IF q.conn # "none" THEN <<"conn.Close">> ELSE <<>>)

\* a return of the executor: runQuery always returns a nil error,
\* runQueryForResource returns an error exactly when it fails
Return(q, failed, msg, out) ==
    [q EXCEPT !.pc = "done", !.failed = failed, !.msg = msg, !.out = out,
              !.goErr = (q.kind = "resource" /\ failed),
              !.log = q.log \o Deferred(q), !.conn = "none", !.rowsOpen = FALSE]

\* toolErrorResultf("...: %v", err) and fmt.Errorf("...: %w", err): the
\* failure return that carries the error of the failed call
Fail(q, msg) ==
    Return([q EXCEPT !.cause = EngineError(q)], TRUE, msg, FailureOutput(q.kind))

\* _ = tx.Rollback() followed by the failure return
RollbackAndFail_noRollback(q, msg) == Fail(q, msg)

RollbackAndFail(q, msg) ==
    Fail([q EXCEPT !.tx = "rolledback", !.log = q.log \o <<"Rollback">>], msg)

Called(q, op) == [q EXCEPT !.log = q.log \o <<op>>]

\* runQuery, lines 136-237, as written: the message of its rejection, the
\* deadline and the row limit it computes, and for each database call the
\* program point that follows its success, the message of its failure return
\* and whether _ = tx.Rollback() precedes that return
runQuery_program ==
    [rejected |-> "only read-only queries are allowed",
     timeout |-> effectiveTimeout(h.config.QueryTimeoutSeconds),
     entry |-> "acquire",
     maxRows |-> effectiveMaxRows(h.config.MaxRows),
     steps |->
        [acquire |-> [next |-> "begin", rollback |-> FALSE,
                      msg |-> "failed to acquire connection"],
         begin   |-> [next |-> "query", rollback |-> FALSE,
                      msg |-> "failed to start read-only transaction"],
         query   |-> [next |-> "columns", rollback |-> TRUE,
                      msg |-> "query failed"],
         columns |-> [next |-> "next", rollback |-> TRUE,
                      msg |-> "failed to fetch columns"],
         scan    |-> [next |-> "next", rollback |-> TRUE,
                      msg |-> "failed to read row"],
         err     |-> [next |-> "commit", rollback |-> TRUE,
                      msg |-> "row iteration failed"],
         commit  |-> [next |-> "done", rollback |-> FALSE,
                      msg |-> "failed to finish transaction"]]]

\* runQueryForResource, lines 239-329, as written
runQueryForResource_program_noScanRollback ==
    [runQuery_program EXCEPT !.steps.scan.rollback = FALSE]

runQueryForResource_program ==
    [rejected |-> "only read-only queries are allowed",
     timeout |-> effectiveTimeout(h.config.QueryTimeoutSeconds),
     entry |-> "acquire",
     maxRows |-> effectiveMaxRows(h.config.MaxRows),
     steps |->
        [acquire |-> [next |-> "begin", rollback |-> FALSE,
                      msg |-> "failed to acquire connection"],
         begin   |-> [next |-> "query", rollback |-> FALSE,
                      msg |-> "failed to start read-only transaction"],
         query   |-> [next |-> "columns", rollback |-> TRUE,
                      msg |-> "query failed"],
         columns |-> [next |-> "next", rollback |-> TRUE,
                      msg |-> "failed to fetch columns"],
         scan    |-> [next |-> "next", rollback |-> TRUE,
                      msg |-> "failed to read row"],
         err     |-> [next |-> "commit", rollback |-> TRUE,
                      msg |-> "row iteration failed"],
         commit  |-> [next |-> "done", rollback |-> FALSE,
                      msg |-> "failed to finish transaction"]]]

\* the executor a request runs in
Program(kind) ==
    IF kind = "tool" THEN runQuery_program ELSE runQueryForResource_program

\* the database call the request is at
At(q) == Program(q.kind).steps[q.pc]

\* the first failure the database injects into a request: the program point
\* and the position of the failed call among the calls of the request
Faulted(q) ==
    IF q.fault = NoFault
        THEN [q EXCEPT !.fault = [at |-> q.pc, call |-> Len(q.log)]]
        ELSE q

\* the `if err != nil` block after the database call the request is at
FailStep(q) ==
    IF At(q).rollback
        THEN RollbackAndFail(Faulted(q), At(q).msg)
        ELSE Fail(Faulted(q), At(q).msg)

\* lines 137-147 and 240-249: the classifier guard, then the deadline
EnterExecutor_unguarded(kind, query, denySubstrings) ==
    [IdleReq EXCEPT !.kind = kind, !.query = query, !.pc = "acquire",
                    !.timeout = effectiveTimeout(h.config.QueryTimeoutSeconds)]

EnterExecutor(kind, query, denySubstrings) ==
    LET q == [IdleReq EXCEPT !.kind = kind, !.query = query]
    IN IF ~isReadOnlyQuery(query, denySubstrings)
        THEN Return(q, TRUE, Program(kind).rejected, FailureOutput(kind))
        ELSE [q EXCEPT !.pc = Program(kind).entry,
                       !.timeout = Program(kind).timeout]

\* the mysql_query tool handler is called with a query text
runQuery(r) ==
    /\ req[r].pc = "idle"
    /\ \E query \in ToolQueries :
        req' = [req EXCEPT ![r] = EnterExecutor("tool", query, h.denySubstrings)]
    /\ UNCHANGED <<h, input, phase, admitted, dataset, pool, cli>>

\* a resource read: the router, then runQueryForResource on the canned query
readResource(r) ==
    /\ req[r].pc = "idle"
    /\ \E u \in Locators :
        LET route == Route(u)
        IN req' = [req EXCEPT ![r] =
            IF route.outcome = "query"
                THEN [EnterExecutor("resource", route.query, h.denySubstrings)
                        EXCEPT !.uri = u]
                ELSE [Return([IdleReq EXCEPT !.kind = "resource", !.uri = u], TRUE,
                             IF route.outcome = "notfound" THEN "Resource not found"
                                                             ELSE "parse error",
                             ZeroQueryOutput)
                        EXCEPT !.notFound = (route.outcome = "notfound")]]
    /\ UNCHANGED <<h, input, phase, admitted, dataset, pool, cli>>

\* context.WithTimeout: the deadline of a running request passes
Deadline_shared(r) ==
    /\ req[r].pc \notin {"idle", "done"}
    /\ ~req[r].expired
    /\ req' = [x \in Reqs |->
                IF req[x].pc \notin {"idle", "done"}
                    THEN [req[x] EXCEPT !.expired = TRUE]
                    ELSE req[x]]
    /\ UNCHANGED <<h, input, phase, admitted, dataset, pool, cli>>

Deadline(r) ==
    /\ req[r].pc \notin {"idle", "done"}
    /\ ~req[r].expired
    /\ req' = [req EXCEPT ![r].expired = TRUE]
    /\ UNCHANGED <<h, input, phase, admitted, dataset, pool, cli>>

\* h.db.Conn(ctx): blocks until a connection is free or the deadline passes;
\* with a connection available it may still fail in the driver.  Which free
\* connection the pool hands out makes no difference to the handler, so the
\* pool of the model hands out a fixed one.
Conn(r) ==
    /\ req[r].pc = "acquire"
    /\ LET q == Called(req[r], "Conn")
           free == {c \in Conns : pool[c] = "free"}
           available ==
               free # {} /\ Cardinality(CheckedOut(pool)) < PoolLimit(h.config)
       IN \/ /\ ~CtxDone(q)
             /\ available
             /\ LET c == CHOOSE c \in free : TRUE
                IN /\ pool' = [pool EXCEPT ![c] = r]
                   /\ req' = [req EXCEPT ![r] = [q EXCEPT !.conn = c, !.pc = At(q).next]]
          \/ /\ CtxDone(q) \/ available
             /\ pool' = pool
             /\ req' = [req EXCEPT ![r] = FailStep(q)]
    /\ UNCHANGED <<h, input, phase, admitted, dataset, cli>>

\* conn.BeginTx(ctx, &sql.TxOptions{ReadOnly: true})
BeginTx(r) ==
    /\ req[r].pc = "begin"
    /\ LET q == Called(req[r], "BeginTx")
       IN \/ /\ ~CtxDone(q)
             /\ req' = [req EXCEPT ![r] =
                    [q EXCEPT !.tx = "active", !.txReadOnly = TxOptions.ReadOnly,
                              !.pc = At(q).next]]
             /\ pool' = pool
          \/ /\ req' = [req EXCEPT ![r] = FailStep(q)]
             /\ pool' = ReleaseConn(pool, q.conn)
    /\ UNCHANGED <<h, input, phase, admitted, dataset, cli>>

\* tx.QueryContext(ctx, query); on success defer rows.Close()
QueryContext_retry(r) ==
    /\ req[r].pc = "query"
    /\ LET q == Called(req[r], "QueryContext")
       IN \/ /\ ~CtxDone(q)
             /\ EngineAccepts(q)
             /\ req' = [req EXCEPT ![r] = [q EXCEPT !.rowsOpen = TRUE, !.pc = "columns"]]
             /\ pool' = pool
          \/ /\ Len(q.log) <= 3
             /\ req' = [req EXCEPT ![r] = q]
             /\ pool' = pool
          \/ /\ Len(q.log) > 3
             /\ req' = [req EXCEPT ![r] = RollbackAndFail(q, "query failed")]
             /\ pool' = ReleaseConn(pool, q.conn)
    /\ UNCHANGED <<h, input, phase, admitted, dataset, cli>>

QueryContext(r) ==
    /\ req[r].pc = "query"
    /\ LET q == Called(req[r], "QueryContext")
       IN \/ /\ ~CtxDone(q)
             /\ EngineAccepts(q)
             /\ req' = [req EXCEPT ![r] = [q EXCEPT !.rowsOpen = TRUE, !.pc = At(q).next]]
             /\ pool' = pool
          \/ /\ req' = [req EXCEPT ![r] = FailStep(q)]
             /\ pool' = ReleaseConn(pool, q.conn)
    /\ UNCHANGED <<h, input, phase, admitted, dataset, cli>>

\* rows.Columns(), then lines 176-187: maxRows, results, rowCount, truncated
Columns(r) ==
    /\ req[r].pc = "columns"
    /\ LET q == Called(req[r], "Columns")
       IN \/ /\ req' = [req EXCEPT ![r] =
                    [q EXCEPT !.columns = ResultColumns(q.query), !.results = <<>>,
                              !.rowCount = 0, !.truncated = FALSE, !.pc = At(q).next]]
             /\ pool' = pool
          \/ /\ req' = [req EXCEPT ![r] = FailStep(q)]
             /\ pool' = ReleaseConn(pool, q.conn)
    /\ UNCHANGED <<h, input, phase, admitted, dataset, cli>>

\* lines 189-192: the limit check at the head of the loop body
LoopHead_offByOne(q, maxRows) ==
    IF q.rowCount > maxRows
        THEN [q EXCEPT !.truncated = TRUE, !.pc = "err"]
        ELSE [q EXCEPT !.pc = "scan"]

LoopHead_noFlag(q, maxRows) ==
    IF q.rowCount >= maxRows
        THEN [q EXCEPT !.pc = "err"]
        ELSE [q EXCEPT !.pc = "scan"]

LoopHead_noBreak(q, maxRows) == [q EXCEPT !.pc = "scan"]

LoopHead(q, maxRows) ==
    IF q.rowCount >= maxRows
        THEN [q EXCEPT !.truncated = TRUE, !.pc = "err"]
        ELSE [q EXCEPT !.pc = "scan"]

\* rows.Next(): true with the cursor on the next row, false at the end of the
\* result set or on an error that rows.Err() will report
Next_(r) ==
    /\ req[r].pc = "next"
    /\ LET q == Called(req[r], "Next")
       IN \/ /\ q.cursor < dataset
             /\ req' = [req EXCEPT ![r] =
                    LoopHead([q EXCEPT !.cursor = q.cursor + 1],
                             Program(q.kind).maxRows)]
          \/ /\ q.cursor = dataset
             /\ req' = [req EXCEPT ![r] = [q EXCEPT !.pc = "err"]]
          \/ /\ req' = [req EXCEPT ![r] = [Faulted(q) EXCEPT !.iterErr = TRUE, !.pc = "err"]]
    /\ UNCHANGED <<h, input, phase, admitted, dataset, pool, cli>>

\* lines 193-207: the scanned values, normalized, appended to results
AppendRow_sharedBuffer(q) ==
    LET values == RawRow(q.cursor, Len(q.columns))
        finished == {x \in Reqs : req[x].pc = "done" /\ req[x].results # <<>>}
        buffer == IF q.results = <<>> /\ finished # {}
                    THEN req[CHOOSE x \in finished : TRUE].results
                    ELSE q.results
    IN [q EXCEPT !.results = Append(buffer,
                                    [i \in 1..Len(values) |-> normalizeValue(values[i])]),
                 !.rowCount = q.rowCount + 1,
                 !.pc = "next"]

AppendRow(q) ==
    LET values == RawRow(q.cursor, Len(q.columns))
    IN [q EXCEPT !.results = Append(q.results,
                                    [i \in 1..Len(values) |-> normalizeValue(values[i])]),
                 !.rowCount = q.rowCount + 1,
                 !.pc = At(q).next]

\* rows.Scan(dest...)
Scan(r) ==
    /\ req[r].pc = "scan"
    /\ LET q == Called(req[r], "Scan")
       IN \/ /\ req' = [req EXCEPT ![r] = AppendRow(q)]
             /\ pool' = pool
          \/ /\ req' = [req EXCEPT ![r] = FailStep(q)]
             /\ pool' = ReleaseConn(pool, q.conn)
    /\ UNCHANGED <<h, input, phase, admitted, dataset, cli>>

\* rows.Err() after the loop
Err(r) ==
    /\ req[r].pc = "err"
    /\ LET q == req[r]
       IN \/ /\ ~q.iterErr
             /\ req' = [req EXCEPT ![r] = [q EXCEPT !.pc = At(q).next]]
             /\ pool' = pool
          \/ /\ q.iterErr \/ q.expired
             /\ req' = [req EXCEPT ![r] = FailStep(q)]
             /\ pool' = ReleaseConn(pool, q.conn)
    /\ UNCHANGED <<h, input, phase, admitted, dataset, cli>>

\* lines 220-236: the result of a committed request
Succeed(q) ==
    Return([q EXCEPT !.tx = "committed"], FALSE, "ok",
           [Columns |-> Slice(q.columns), Rows |-> Slice(q.results),
            RowCount |-> q.rowCount, Truncated |-> q.truncated])

\* lines 215-218: the return for a failed commit
CommitFailed_partial(q) ==
    Return([q EXCEPT !.tx = "aborted", !.cause = EngineError(q)], TRUE,
           "failed to finish transaction",
           [Columns |-> Slice(q.columns), Rows |-> Slice(q.results),
            RowCount |-> q.rowCount, Truncated |-> q.truncated])

CommitFailed_rollback(q) == RollbackAndFail(q, "failed to finish transaction")

CommitFailed(q) ==
    IF At(q).rollback
        THEN RollbackAndFail(q, At(q).msg)
        ELSE Fail([q EXCEPT !.tx = "aborted"], At(q).msg)

\* tx.Commit()
Commit(r) ==
    /\ req[r].pc = "commit"
    /\ LET q == Called(req[r], "Commit")
       IN /\ \/ /\ ~CtxDone(q)
                /\ req' = [req EXCEPT ![r] = Succeed(q)]
                /\ dataset' = IF Writes(q.query) THEN Written(dataset) ELSE dataset
             \/ /\ req' = [req EXCEPT ![r] = CommitFailed(Faulted(q))]
                /\ dataset' = dataset
          /\ pool' = ReleaseConn(pool, q.conn)
    /\ UNCHANGED <<h, input, phase, admitted, cli>>

\* the response is delivered; the slot takes the next request
Respond(r) ==
    /\ req[r].pc = "done"
    /\ req' = [req EXCEPT ![r] = IdleReq]
    /\ UNCHANGED <<h, input, phase, admitted, dataset, pool, cli>>

ExecDenyFiles == { <<>>, << <<" ", "show">> >> }

Init ==
    /\ \E file \in ConfigFiles :
        /\ file.deny \in ExecDenyFiles /\ file.timeout = 0 /\ file.maxOpen = 1
        /\ h = newHandler(file)
    /\ input = <<>>
    /\ phase = "off"
    /\ admitted = FALSE
    /\ dataset \in 0..MaxDbRows
    /\ pool = [c \in Conns |-> "free"]
    /\ req = [r \in Reqs |-> IdleReq]
    /\ cli = NoRun

Next ==
    \E r \in Reqs :
        \/ runQuery(r)
        \/ readResource(r)
        \/ Deadline(r)
        \/ Conn(r)
        \/ BeginTx(r)
        \/ QueryContext(r)
        \/ Columns(r)
        \/ Next_(r)
        \/ Scan(r)
        \/ Err(r)
        \/ Commit(r)
        \/ Respond(r)

Spec == Init /\ [][Next]_vars

TypeOK ==
    /\ \A c \in Conns : pool[c] \in Reqs \cup {"free"}
    /\ \A r \in Reqs : req[r].pc \in {"idle", "acquire", "begin", "query", "columns",
                                      "next", "scan", "err", "commit", "done"}

(***************************************************************************)
(* Properties of the executors                                             *)
(***************************************************************************)
MaxRows == effectiveMaxRows(h.config.MaxRows)

Min(a, b) == IF a <= b THEN a ELSE b

\* row i of the result set of a query, as a response carries it
ExpectedRow(query, i) ==
    [j \in 1..Len(ResultColumns(query)) |-> normalizeValue(RawValue(i, j))]

Succeeded(r) == req[r].pc = "done" /\ ~req[r].failed

\* C6: a successful execution over a result set of more than max_rows rows
\* returns exactly the first max_rows rows and truncated = true; over
\* max_rows rows or fewer it returns all rows, truncated = false and
\* rowCount = the true number of rows.
Thm_C6_Truncation ==
    \A r \in Reqs : Succeeded(r) =>
        LET out == req[r].out
            rows == out.Rows.elems
        IN /\ Len(rows) = Min(dataset, MaxRows)
           /\ \A i \in 1..Len(rows) : rows[i] = ExpectedRow(req[r].query, i)
           /\ out.Truncated = (dataset > MaxRows)
           /\ dataset <= MaxRows => out.RowCount = dataset

\* a successful response cut at max_rows >= 1 rows
Wit_C6_Truncated ==
    \E r \in Reqs :
        /\ Succeeded(r)
        /\ dataset > MaxRows
        /\ req[r].out.Truncated
        /\ Len(req[r].out.Rows.elems) = MaxRows

\* a successful response over exactly max_rows rows
Wit_C6_ExactlyMaxRows ==
    \E r \in Reqs :
        /\ Succeeded(r)
        /\ dataset = MaxRows
        /\ ~req[r].out.Truncated
        /\ req[r].out.RowCount = dataset

\* C7: in every state of the row-streaming loop and in every returned
\* result, rowCount is the number of accumulated rows, that number is at most
\* max_rows, and every accumulated row has len(columns) values.
Thm_C7_RowInvariant ==
    \A r \in Reqs :
        /\ req[r].pc \in {"next", "scan", "err", "commit"} =>
            /\ req[r].rowCount = Len(req[r].results)
            /\ Len(req[r].results) <= MaxRows
            /\ \A i \in 1..Len(req[r].results) :
                   Len(req[r].results[i]) = Len(req[r].columns)
        /\ req[r].pc = "done" =>
            /\ req[r].out.RowCount = Len(req[r].out.Rows.elems)
            /\ Len(req[r].out.Rows.elems) <= MaxRows
            /\ \A i \in 1..Len(req[r].out.Rows.elems) :
                   Len(req[r].out.Rows.elems[i]) = Len(req[r].out.Columns.elems)

\* the loop holds max_rows rows and the result set has a further row
Wit_C7_LoopAtLimit ==
    \E r \in Reqs :
        /\ req[r].pc = "next"
        /\ req[r].rowCount = MaxRows
        /\ req[r].cursor < dataset
        /\ Len(req[r].columns) = 2

\* C8: a request that has returned holds no connection: every connection it
\* acquired is back in the pool, on every exit path.
Thm_C8_ConnectionReleased ==
    \A r \in Reqs : req[r].pc \in {"idle", "done"} =>
        /\ req[r].conn = "none"
        /\ \A c \in Conns : pool[c] # r

Acquired(r) ==
    \E i \in 1..Len(req[r].log) : req[r].log[i] = "conn.Close"

\* all requests have returned, one of them after a failed commit on a
\* connection it had acquired, the other after its deadline
Wit_C8_ReleasedAfterFailures ==
    /\ \A r \in Reqs : req[r].pc = "done" /\ Acquired(r)
    /\ \E r \in Reqs : req[r].msg = "failed to finish transaction" /\ ~req[r].expired
    /\ \E r \in Reqs : req[r].expired
    /\ \A c \in Conns : pool[c] = "free"

\* C9: a result carries rows only when the commit succeeded; a failed
\* request returns no rows and rowCount 0.
Thm_C9_NoPartialSuccess ==
    \A r \in Reqs : req[r].pc = "done" =>
        /\ Len(req[r].out.Rows.elems) > 0 => (~req[r].failed /\ req[r].tx = "committed")
        /\ req[r].failed => (req[r].out.Rows.elems = <<>> /\ req[r].out.RowCount = 0)

\* a commit failed after rows had been read
Wit_C9_CommitFailedAfterRows ==
    \E r \in Reqs :
        /\ req[r].pc = "done"
        /\ req[r].msg = "failed to finish transaction"
        /\ Len(req[r].results) > 0
        /\ req[r].out.Rows.elems = <<>>

\* the request in slot r was handed to an executor with a text it rejects
RejectedText(r) ==
    /\ req[r].pc # "idle"
    /\ \/ req[r].kind = "tool"
       \/ req[r].kind = "resource" /\ req[r].query # <<>>
    /\ ~isReadOnlyQuery(req[r].query, h.denySubstrings)

\* C10: a request whose text the classifier rejects has returned the
\* read-only-violation failure without any call into the database: no
\* connection, no transaction, no statement.
Thm_C10_RejectedNeverExecutes ==
    \A r \in Reqs : RejectedText(r) =>
        /\ req[r].pc = "done"
        /\ req[r].failed
        /\ req[r].msg = "only read-only queries are allowed"
        /\ req[r].log = <<>>
        /\ req[r].conn = "none"
        /\ req[r].tx = "none"
        /\ \A c \in Conns : pool[c] # r

\* a multi-statement text rejected in runQuery and a canned query rejected
\* in runQueryForResource
Wit_C10_BothExecutorsReject ==
    /\ \E r \in Reqs :
        /\ RejectedText(r)
        /\ req[r].kind = "tool"
        /\ Contains(req[r].query, <<";">>)
    /\ \E r \in Reqs :
        /\ RejectedText(r)
        /\ req[r].kind = "resource"

\* position of the first call of op in a log, 0 when it was never called
RECURSIVE FirstCall(_, _, _)
FirstCall(log, op, i) ==
    IF i > Len(log) THEN 0
    ELSE IF log[i] = op THEN i
    ELSE FirstCall(log, op, i + 1)

\* how many times op was called
RECURSIVE Calls(_, _)
Calls(log, op) ==
    IF log = <<>> THEN 0
    ELSE (IF Head(log) = op THEN 1 ELSE 0) + Calls(Tail(log), op)

StatementInReadOnlyTx ==
    \A r \in Reqs :
        LET q == req[r]
            i == FirstCall(q.log, "QueryContext", 1)
        IN /\ q.pc = "query" =>
                q.tx = "active" /\ q.txReadOnly /\ q.conn \in Conns /\ pool[q.conn] = r
           /\ q.tx = "active" => q.txReadOnly /\ q.conn \in Conns /\ pool[q.conn] = r
           /\ i # 0 =>
                /\ i = 3 /\ q.log[1] = "Conn" /\ q.log[2] = "BeginTx"
                /\ q.tx # "none" /\ q.txReadOnly

\* C11: every statement is executed only inside a transaction that was
\* opened with the read-only flag on the connection the request itself
\* acquired, never outside a transaction or in a read-write one; the engine
\* refusing writes inside a read-only transaction, no step of any request
\* changes the dataset, although a writing statement passes the classifier.
Thm_C11_ReadOnlyTransaction ==
    [](StatementInReadOnlyTx) /\ [][dataset' = dataset]_vars

\* a writing statement passed the classifier, reached the engine inside the
\* read-only transaction before any deadline, and was refused and rolled back
Wit_C11_WriteRefused ==
    \E r \in Reqs :
        /\ req[r].pc = "done"
        /\ Writes(req[r].query)
        /\ isReadOnlyQuery(req[r].query, h.denySubstrings)
        /\ Calls(req[r].log, "QueryContext") = 1
        /\ ~req[r].expired
        /\ req[r].txReadOnly
        /\ req[r].tx = "rolledback"
        /\ req[r].msg = "query failed"

\* the path segments of a locator
Segments(u) ==
    LET trimmedPath == TrimPrefixSlash(u.Path)
    IN IF trimmedPath = <<>> THEN <<>> ELSE Split(trimmedPath)

\* how many path segments each known host takes
SegmentCount == [databases |-> 0, tables |-> 1, schema |-> 2]

\* a locator of one of the three shapes the router serves
WellFormed(u) ==
    /\ ~u.err
    /\ ToLowerName(u.Scheme) = "mysql"
    /\ ToLowerName(u.Host) \in DOMAIN SegmentCount
    /\ Len(Segments(u)) = SegmentCount[ToLowerName(u.Host)]
    /\ \A k \in 1..Len(Segments(u)) :
        /\ Segments(u)[k] # <<>>
        /\ \A i \in 1..Len(Segments(u)[k]) : Segments(u)[k][i] \in IdentifierChars

\* C12: readResource resolves every malformed locator (one that cannot be
\* parsed, has a scheme other than mysql, an unknown host, the wrong number
\* of path segments or a segment that is not an identifier) to the not-found
\* outcome, not to a generic error, and without any database call.
Orig_C12_MalformedIsNotFound ==
    \A r \in Reqs :
        (req[r].kind = "resource" /\ ~WellFormed(req[r].uri)) =>
            /\ req[r].pc = "done"
            /\ req[r].notFound
            /\ req[r].log = <<>>
            /\ req[r].tx = "none"

\* a text of letters, digits and underscores only, at least one
OnlyIdentifierChars(seg) ==
    seg # <<>> /\ \A i \in 1..Len(seg) : seg[i] \in IdentifierChars

\* the three canned forms, for the segments of the locator
CannedForm(u, query) ==
    LET host == ToLowerName(u.Host)
        segs == Segments(u)
    IN \/ /\ host = "databases"
          /\ segs = <<>>
          /\ query = <<"SHOW", " ", "DATABASES">>
       \/ /\ host = "tables"
          /\ Len(segs) = 1
          /\ OnlyIdentifierChars(segs[1])
          /\ query = <<"SHOW", " ", "TABLES", " ", "FROM", " ", Backquote>>
                        \o segs[1] \o <<Backquote>>
       \/ /\ host = "schema"
          /\ Len(segs) = 2
          /\ OnlyIdentifierChars(segs[1])
          /\ OnlyIdentifierChars(segs[2])
          /\ query = <<"DESCRIBE", " ", Backquote>> \o segs[1]
                        \o <<Backquote, ".", Backquote>> \o segs[2] \o <<Backquote>>

\* C13: every query text readResource passes to the executor is exactly one
\* of the three canned forms (SHOW DATABASES, SHOW TABLES FROM `db`,
\* DESCRIBE `db`.`table`) with every interpolated segment made of letters,
\* digits and underscores only; a resource read without such a text makes no
\* database call.
Thm_C13_CannedQueriesOnly ==
    \A r \in Reqs :
        req[r].kind = "resource" =>
            IF req[r].query # <<>>
                THEN CannedForm(req[r].uri, req[r].query)
                ELSE req[r].log = <<>>

\* the table list of my_db and the schema of my_db.t1 were both executed
Wit_C13_SegmentsInterpolated ==
    /\ \E r \in Reqs :
        /\ req[r].query = <<"SHOW", " ", "TABLES", " ", "FROM", " ", Backquote,
                            "m", "y", "_", "d", "b", Backquote>>
        /\ Calls(req[r].log, "QueryContext") = 1
    /\ \E r \in Reqs :
        /\ req[r].query = <<"DESCRIBE", " ", Backquote, "m", "y", "_", "d", "b",
                            Backquote, ".", Backquote, "t", "1", Backquote>>
        /\ Calls(req[r].log, "QueryContext") = 1

(***************************************************************************)
(* What the handlers hand back to the MCP server                           *)
(***************************************************************************)
\* queryOutputToStructuredContent: both lists are made with make, never nil
queryOutputToStructuredContent(output) ==
    [columns |-> Slice(output.Columns.elems),
     rows |-> Slice(output.Rows.elems),
     rowCount |-> output.RowCount,
     truncated |-> output.Truncated]

\* the three values runQuery returns for a finished tool request
runQueryReturn(q) ==
    [result |-> [IsError |-> q.failed,
                 Content |-> <<[Type |-> "text", Text |-> <<q.msg, q.cause>>]>>,
                 StructuredContent |-> queryOutputToStructuredContent(q.out)],
     output |-> q.out,
     err |-> IF q.goErr THEN "error" ELSE "nil"]

\* C14: every failure of the query tool call is reported as a tool result
\* with the failure flag set, a text message, and an output of the normal
\* shape whose columns and rows are explicit empty lists (not absent), whose
\* rowCount is 0 and truncated is false; runQuery never returns a Go error.
Thm_C14_ToolFailureShape ==
    \A r \in Reqs :
        (req[r].kind = "tool" /\ req[r].pc = "done") =>
            LET ret == runQueryReturn(req[r])
            IN /\ ret.err = "nil"
               /\ ret.result.IsError = req[r].failed
               /\ req[r].failed =>
                    /\ Len(ret.result.Content) = 1
                    /\ ret.result.Content[1].Type = "text"
                    /\ ret.result.Content[1].Text[1] # ""
                    /\ ret.output = [Columns |-> [nil |-> FALSE, elems |-> <<>>],
                                     Rows |-> [nil |-> FALSE, elems |-> <<>>],
                                     RowCount |-> 0, Truncated |-> FALSE]
                    /\ ret.result.StructuredContent =
                            [columns |-> [nil |-> FALSE, elems |-> <<>>],
                             rows |-> [nil |-> FALSE, elems |-> <<>>],
                             rowCount |-> 0, truncated |-> FALSE]

\* one tool call was refused at admission, another failed at commit after it
\* had read rows
Wit_C14_RejectedAndCommitFailure ==
    /\ \E r \in Reqs :
        /\ req[r].kind = "tool" /\ req[r].pc = "done" /\ req[r].failed
        /\ req[r].msg = "only read-only queries are allowed"
    /\ \E r \in Reqs :
        /\ req[r].kind = "tool" /\ req[r].pc = "done" /\ req[r].failed
        /\ req[r].msg = "failed to finish transaction"
        /\ req[r].rowCount > 0

\* C15: normalizeValue is total: null stays null, a byte sequence becomes the
\* text with the same bytes, a timestamp becomes its UTC RFC3339 nanosecond
\* text, every other value is unchanged; every value stored in a row of a
\* request is the normalized driver value of its row and column.
Thm_C15_ValuesNormalized ==
    \A r \in Reqs :
        /\ \A i \in 1..Len(req[r].results) :
            /\ Len(req[r].results[i]) = Len(req[r].columns)
            /\ \A j \in 1..Len(req[r].results[i]) :
                LET raw == RawValue(i, j)
                    got == req[r].results[i][j]
                IN /\ got.kind \notin {"bytes", "time"}
                   /\ raw.kind = "nil" => got = raw
                   /\ raw.kind = "bytes" => got.kind = "string" /\ got.v = raw.v
                   /\ raw.kind = "time" =>
                        /\ got.kind = "string"
                        /\ got.v = <<"RFC3339Nano", raw.wall - raw.offset, "Z">>
                   /\ raw.kind \notin {"nil", "bytes", "time"} => got = raw
        /\ Succeeded(r) => req[r].out.Rows.elems = req[r].results

\* a response carries three rows of two columns: a null, a byte sequence, a
\* timestamp with a zone offset, an integer, a boolean and a text
Wit_C15_EveryKindReturned ==
    \E r \in Reqs :
        /\ Succeeded(r)
        /\ Len(req[r].out.Rows.elems) >= 3
        /\ Len(req[r].out.Columns.elems) = 2
        /\ {RawValue(i, j).kind : i \in 1..3, j \in 1..2}
                = {"nil", "bytes", "time", "int64", "bool", "string"}
        /\ \E i \in 1..3, j \in 1..2 :
            RawValue(i, j).kind = "time" /\ RawValue(i, j).offset # 0

\* a finished request that failed after its transaction was opened
FailedInTransaction(r) ==
    req[r].pc = "done" /\ req[r].failed /\ req[r].tx # "none"

\* C16 as stated: on every execution failure after a transaction was opened
\* (statement, column fetch, scan, row iteration or commit error) the
\* transaction is rolled back and the failure carries the engine's message.
Orig_C16_AlwaysRolledBack ==
    \A r \in Reqs :
        FailedInTransaction(r) =>
            /\ req[r].tx = "rolledback"
            /\ Calls(req[r].log, "Rollback") = 1
            /\ req[r].cause # ""

\* C16: on a statement, column fetch, scan or row iteration error the
\* transaction is rolled back, Rollback being the call that follows the
\* failed one; on a commit error no Rollback is called and the transaction is
\* left as the failed Commit ended it; in every case the failure is reported
\* with the message of the underlying error attached.
Thm_C16_RolledBackBeforeCommit ==
    \A r \in Reqs :
        FailedInTransaction(r) =>
            /\ req[r].cause # ""
            /\ IF Calls(req[r].log, "Commit") = 0
                THEN /\ req[r].tx = "rolledback"
                     /\ Calls(req[r].log, "Rollback") = 1
                     /\ LET i == FirstCall(req[r].log, "Rollback", 1)
                        IN /\ i > 3
                           /\ req[r].log[i - 1] \in {"QueryContext", "Columns", "Scan", "Next"}
                           /\ \A k \in (i + 1)..Len(req[r].log) :
                                req[r].log[k] \in {"rows.Close", "conn.Close"}
                ELSE /\ req[r].tx = "aborted"
                     /\ Calls(req[r].log, "Rollback") = 0
                     /\ req[r].msg = "failed to finish transaction"

\* one request was rolled back on a scan error after it had stored a row,
\* another failed at commit
Wit_C16_ScanAndCommitFailures ==
    /\ \E r \in Reqs :
        /\ FailedInTransaction(r)
        /\ req[r].msg = "failed to read row"
        /\ req[r].rowCount >= 1
        /\ req[r].tx = "rolledback"
    /\ \E r \in Reqs :
        /\ FailedInTransaction(r)
        /\ Calls(req[r].log, "Commit") = 1
        /\ req[r].tx = "aborted"

(***************************************************************************)
(* Requests under a scheduler that runs every request and a timer that     *)
(* fires: a request that can take a step takes one, and the deadline of a  *)
(* request that is still running passes.                                   *)
(***************************************************************************)
InitLive ==
    /\ \E file \in ConfigFiles :
        /\ file.deny = <<>> /\ file.maxRows = 1 /\ file.maxOpen = 1
        /\ h = newHandler(file)
    /\ input = <<>>
    /\ phase = "off"
    /\ admitted = FALSE
    /\ dataset \in {0, MaxDbRows}
    /\ pool = [c \in Conns |-> "free"]
    /\ req = [r \in Reqs |-> IdleReq]
    /\ cli = NoRun

\* the next database call of a running request
Step(r) ==
    \/ Conn(r)
    \/ BeginTx(r)
    \/ QueryContext(r)
    \/ Columns(r)
    \/ Next_(r)
    \/ Scan(r)
    \/ Err(r)
    \/ Commit(r)

Fairness == \A r \in Reqs : WF_vars(Step(r)) /\ WF_vars(Deadline(r))

SpecLive == InitLive /\ [][Next]_vars /\ Fairness

Running(r) == req[r].pc \notin {"idle", "done"}

\* the deadline of a request that entered the executor is the configured
\* timeout, 30 seconds when that is not positive
DeadlineConfigured ==
    \A r \in Reqs :
        (Running(r) \/ req[r].log # <<>>) =>
            req[r].timeout = IF h.config.QueryTimeoutSeconds <= 0
                                THEN 30
                                ELSE h.config.QueryTimeoutSeconds

\* a request whose deadline passed ended in a reported failure that carries
\* the deadline error, and holds no connection
ExpiredFails ==
    \A r \in Reqs :
        (req[r].pc = "done" /\ req[r].expired) =>
            /\ req[r].failed
            /\ req[r].cause = "context deadline exceeded"
            /\ req[r].conn = "none"
            /\ \A c \in Conns : pool[c] # r

\* the call that is pending when the deadline has passed is aborted
PendingAborted ==
    \A r \in Reqs :
        (/\ req[r].expired
         /\ req[r].pc \in {"acquire", "begin", "query", "commit"}
         /\ req'[r] # req[r])
            => (req'[r].pc = "done" /\ req'[r].failed)

InitPool ==
    /\ \E file \in ConfigFiles :
        /\ file.deny = <<>> /\ file.maxRows = 1 /\ file.timeout = 0
        /\ h = newHandler(file)
    /\ input = <<>>
    /\ phase = "off"
    /\ admitted = FALSE
    /\ dataset = 1
    /\ pool = [c \in Conns |-> "free"]
    /\ req = [r \in Reqs |-> IdleReq]
    /\ cli = NoRun

SpecPool == InitPool /\ [][Next]_vars

\* the request is between its acquisition of a connection and its return
Executing(r) ==
    req[r].pc \in {"begin", "query", "columns", "next", "scan", "err", "commit"}

OwnConnection ==
    /\ \A r \in Reqs :
        IF Executing(r)
            THEN /\ req[r].conn \in Conns
                 /\ pool[req[r].conn] = r
                 /\ Cardinality({c \in Conns : pool[c] = r}) = 1
                 /\ req[r].pc # "begin" => req[r].tx = "active"
            ELSE /\ req[r].conn = "none"
                 /\ \A c \in Conns : pool[c] # r
                 /\ req[r].tx # "active"
    /\ \A r1, r2 \in Reqs :
        (Executing(r1) /\ Executing(r2) /\ req[r1].conn = req[r2].conn) => r1 = r2
    /\ h.config.MaxOpenConns > 0 =>
        Cardinality({c \in Conns : pool[c] \in Reqs}) <= h.config.MaxOpenConns

\* a step of one request leaves every other request, and the connection it
\* holds, as they were
Isolated ==
    \A r1, r2 \in Reqs :
        (r1 # r2 /\ req'[r1] # req[r1]) =>
            /\ req'[r2] = req[r2]
            /\ \A c \in Conns : pool[c] = r2 => pool'[c] = r2

\* C18: under any interleaving of concurrent requests over a pool of K
\* connections each executing request holds exactly one connection and one
\* transaction of its own, no connection is held by two requests, at most K
\* connections are checked out, and no step of one request (its failure or
\* the passing of its deadline included) changes anything of another.
Thm_C18_RequestIsolation ==
    [](OwnConnection) /\ [][Isolated]_vars

\* two requests are inside their transactions at once, each on its own
\* connection, and the deadline of one of them has passed
Wit_C18_TwoTransactionsOneExpired ==
    \E r1, r2 \in Reqs :
        /\ r1 # r2
        /\ req[r1].tx = "active" /\ req[r2].tx = "active"
        /\ req[r1].conn # req[r2].conn
        /\ req[r1].expired /\ ~req[r2].expired
        /\ req[r2].rowCount = 1

\* the calls that undo and release: rollback and the deferred closes
CleanupCalls == {"Rollback", "rows.Close", "conn.Close"}

\* position of the last call of a log that is not a cleanup call, 0 when none
RECURSIVE LastWorkCall(_, _)
LastWorkCall(log, i) ==
    IF i = 0 THEN 0
    ELSE IF log[i] \notin CleanupCalls THEN i
    ELSE LastWorkCall(log, i - 1)

\* the call each failure message reports
FailedCall ==
    [x \in {"failed to acquire connection", "failed to start read-only transaction",
            "query failed", "failed to fetch columns", "failed to read row",
            "row iteration failed", "failed to finish transaction"} |->
        CASE x = "failed to acquire connection" -> {"Conn"}
          [] x = "failed to start read-only transaction" -> {"BeginTx"}
          [] x = "query failed" -> {"QueryContext"}
          [] x = "failed to fetch columns" -> {"Columns"}
          [] x = "failed to read row" -> {"Scan"}
          [] x = "row iteration failed" -> {"Next"}
          [] OTHER -> {"Commit"}]

\* C19: no step is retried: a request acquires a connection at most once,
\* begins a transaction at most once and executes its statement at most once;
\* after a failure or timeout the call that failed is its last database call
\* other than the rollback and the release.
Thm_C19_NoRetry ==
    \A r \in Reqs :
        /\ Calls(req[r].log, "Conn") <= 1
        /\ Calls(req[r].log, "BeginTx") <= 1
        /\ Calls(req[r].log, "QueryContext") <= 1
        /\ Calls(req[r].log, "Commit") <= 1
        /\ Calls(req[r].log, "Rollback") <= 1
        /\ (req[r].pc = "done" /\ req[r].failed) =>
            IF req[r].msg \in DOMAIN FailedCall
                THEN LET k == LastWorkCall(req[r].log, Len(req[r].log))
                     IN k > 0 /\ req[r].log[k] \in FailedCall[req[r].msg]
                ELSE req[r].log = <<>>

\* a statement timed out: it was executed once, rolled back, and the
\* connection released, with nothing after
Wit_C19_TimedOutStatementNotRetried ==
    \E r \in Reqs :
        /\ req[r].pc = "done"
        /\ req[r].expired
        /\ req[r].msg = "query failed"
        /\ req[r].log = <<"Conn", "BeginTx", "QueryContext", "Rollback", "conn.Close">>

\* json.Marshal of a QueryOutput: a nil slice is encoded as null, any other
\* slice as the list of its elements
jsonMarshal(output) ==
    [columns |-> IF output.Columns.nil THEN "null" ELSE output.Columns.elems,
     rows |-> IF output.Rows.nil THEN "null" ELSE output.Rows.elems,
     rowCount |-> output.RowCount,
     truncated |-> output.Truncated]

\* a nil *mcp.ReadResourceResult and a nil error
NoResult == [nil |-> TRUE, Contents |-> <<>>]
NoError == [kind |-> "nil", msg |-> <<>>]

\* the two values readResource returns for a finished resource read
readResourceReturn_notFound(q) ==
    IF q.failed
        THEN [result |-> NoResult,
              err |-> [kind |-> "ResourceNotFound", msg |-> <<"Resource not found", "">>]]
        ELSE [result |-> [nil |-> FALSE, Contents |-> <<[URI |-> q.uri, MIMEType |-> "application/json",
                                          Text |-> jsonMarshal(q.out)]>>],
              err |-> NoError]

readResourceReturn(q) ==
    IF q.notFound
        THEN [result |-> NoResult,
              err |-> [kind |-> "ResourceNotFound", msg |-> <<"Resource not found", "">>]]
    ELSE IF q.failed
        THEN [result |-> NoResult, err |-> [kind |-> "error", msg |-> <<q.msg, q.cause>>]]
    ELSE [result |-> [nil |-> FALSE, Contents |-> <<[URI |-> q.uri, MIMEType |-> "application/json",
                                      Text |-> jsonMarshal(q.out)]>>],
          err |-> NoError]

\* the messages of the executor's failures
ExecutorMessages ==
    DOMAIN FailedCall \cup {"only read-only queries are allowed"}

\* C20: for a valid locator readResource runs the canned query through the
\* executor and returns the JSON encoding of its result on success; when the
\* query fails the outcome is an error that carries the executor's message,
\* never not-found; not-found is returned only for a bad locator.
Thm_C20_ExecutionErrorNotNotFound ==
    \A r \in Reqs :
        (req[r].kind = "resource" /\ req[r].pc = "done") =>
            LET q == req[r]
                ret == readResourceReturn(q)
            IN /\ WellFormed(q.uri) =>
                    /\ CannedForm(q.uri, q.query)
                    /\ IF q.failed
                        THEN /\ ret.result.nil
                             /\ ret.err.kind = "error"
                             /\ ret.err.msg[1] \in ExecutorMessages
                             /\ ret.err.msg[1] = q.msg
                        ELSE /\ ret.err.kind = "nil"
                             /\ ~ret.result.nil
                             /\ Len(ret.result.Contents) = 1
                             /\ ret.result.Contents[1].URI = q.uri
                             /\ ret.result.Contents[1].MIMEType = "application/json"
                             /\ ret.result.Contents[1].Text =
                                    [columns |-> q.columns, rows |-> q.results,
                                     rowCount |-> Len(q.results),
                                     truncated |-> q.truncated]
               /\ ret.err.kind = "ResourceNotFound" =>
                    ~WellFormed(q.uri) /\ q.log = <<>>

\* the table list of a valid locator failed in the engine and was reported
\* as an execution error, while a schema read returned its JSON result
Wit_C20_ValidLocatorQueryFailed ==
    /\ \E r \in Reqs :
        /\ req[r].kind = "resource" /\ req[r].pc = "done"
        /\ WellFormed(req[r].uri)
        /\ req[r].msg = "query failed"
        /\ ~req[r].notFound
        /\ readResourceReturn(req[r]).err.kind = "error"
    /\ \E r \in Reqs :
        /\ req[r].kind = "resource" /\ req[r].pc = "done"
        /\ ~req[r].failed
        /\ readResourceReturn(req[r]).err.kind = "nil"
        /\ Len(readResourceReturn(req[r]).result.Contents[1].Text.rows) >= 1

\* the request has read its result set and not yet returned
ReadAll(r) == req[r].pc = "commit"

\* what a response carries of a result: columns, rows, rowCount, truncated
Carried(r) ==
    IF Succeeded(r)
        THEN <<req[r].out.Columns.elems, req[r].out.Rows.elems,
               req[r].out.RowCount, req[r].out.Truncated>>
        ELSE <<req[r].columns, req[r].results, req[r].rowCount, req[r].truncated>>

\* C21: two executions of the same admitted statement, one after the other
\* or at the same time, against the dataset that no request changes, yield
\* the same columns, rows, rowCount and truncation flag: an execution leaves
\* nothing behind that a later one can see.
Thm_C21_SameStatementSameResult ==
    \A r1, r2 \in Reqs :
        (/\ req[r1].query = req[r2].query
         /\ Succeeded(r1) \/ ReadAll(r1)
         /\ Succeeded(r2) \/ ReadAll(r2))
            => Carried(r1) = Carried(r2)

\* two requests run the same statement at the same time, each inside its own
\* transaction, and both have read the row
Wit_C21_SameStatementConcurrently ==
    \E r1, r2 \in Reqs :
        /\ r1 # r2
        /\ req[r1].query = req[r2].query
        /\ ReadAll(r1) /\ ReadAll(r2)
        /\ req[r1].tx = "active" /\ req[r2].tx = "active"
        /\ req[r1].rowCount = 1

(***************************************************************************)
(* The CLI client: run (cmd/client/mcp_client.go)                          *)
(***************************************************************************)
\* the command line: whether flag parsing fails, and the value of -query
\* ("SELECT 1" is also the default when the flag is not given)
ClientArgs == [parseErr : BOOLEAN, query : {"", "SELECT 1", "SELECT 42"}]

\* res.StructuredContent: nil, a value json can encode, one it cannot
StructuredContents == {"nil", "object", "unencodable"}

TextBad == [type |-> "text", Text |-> "bad"]
TextWorse == [type |-> "text", Text |-> "worse"]
Image == [type |-> "image", Text |-> ""]

\* res.Content
ContentLists == {<<>>, <<TextBad>>, <<Image>>, <<Image, TextBad>>, <<TextBad, TextWorse>>}

\* the results session.CallTool can return
ToolResults ==
    [nil : {FALSE}, IsError : BOOLEAN, StructuredContent : StructuredContents,
     Content : ContentLists]

\* json.MarshalIndent(v, "", "  ")
MarshalIndent(v) == [err |-> v = "unencodable", text |-> <<"json", v>>]

\* position of the first *mcp.TextContent of a content list, 0 when none
RECURSIVE FirstText(_, _)
FirstText(content, i) ==
    IF i > Len(content) THEN 0
    ELSE IF content[i].type = "text" THEN i
    ELSE FirstText(content, i + 1)

\* lines 92-104: what the loop over res.Content prints
RECURSIVE PrintContent(_)
PrintContent(content) ==
    IF content = <<>> THEN <<>>
    ELSE <<IF Head(content).type = "text"
              THEN Head(content).Text
              ELSE MarshalIndent(Head(content).type).text>>
            \o PrintContent(Tail(content))

\* lines 72-105: the error run returns for a tool result, and what it prints
handleResult(res) ==
    IF res.IsError THEN
        IF res.StructuredContent # "nil" /\ ~MarshalIndent(res.StructuredContent).err
            THEN [err |-> Error(<<"tool failed", MarshalIndent(res.StructuredContent).text>>),
                  logged |-> <<>>]
        ELSE IF FirstText(res.Content, 1) # 0
            THEN [err |-> Error(<<"tool failed", res.Content[FirstText(res.Content, 1)].Text>>),
                  logged |-> <<>>]
        ELSE [err |-> Error(<<"tool failed">>), logged |-> <<>>]
    ELSE IF res.StructuredContent # "nil" THEN
        IF MarshalIndent(res.StructuredContent).err
            THEN [err |-> Error(<<"failed to marshal structured content">>), logged |-> <<>>]
            ELSE [err |-> NilError, logged |-> <<MarshalIndent(res.StructuredContent).text>>]
    ELSE [err |-> NilError, logged |-> PrintContent(res.Content)]

\* a return of run: the deferred session.Close() runs when it was registered
ReturnRun_noClose(c, err) == [c EXCEPT !.pc = "done", !.err = err]

ReturnRun(c, err) ==
    [c EXCEPT !.pc = "done", !.err = err,
              !.session = IF c.session = "open" THEN "closed" ELSE c.session,
              !.closes = IF c.session = "open" THEN c.closes + 1 ELSE c.closes]

\* lines 51-59: fs.Parse(args) and the check of -query
ParseFlags ==
    /\ cli.pc = "flags"
    /\ \E args \in ClientArgs :
        cli' = IF args.parseErr
                 THEN ReturnRun(cli, Error(<<"flag">>))
               ELSE IF args.query = ""
                 THEN ReturnRun(cli, Error(<<"-query is required">>))
               ELSE [cli EXCEPT !.query = args.query, !.pc = "connect"]
    /\ UNCHANGED <<h, input, phase, admitted, dataset, pool, req>>

\* lines 61-66: client.Connect, then defer session.Close()
Connect ==
    /\ cli.pc = "connect"
    /\ \/ cli' = [cli EXCEPT !.connected = "ok", !.session = "open", !.pc = "call"]
       \/ cli' = ReturnRun([cli EXCEPT !.connected = "failed"], Error(<<"connect">>))
    /\ UNCHANGED <<h, input, phase, admitted, dataset, pool, req>>

\* lines 68-75: session.CallTool
CallTool ==
    /\ cli.pc = "call"
    /\ LET c == [cli EXCEPT !.calls = cli.calls + 1]
       IN \/ cli' = ReturnRun(c, Error(<<"CallTool failed", "call failed">>))
          \/ \E res \in ToolResults : cli' = [c EXCEPT !.res = res, !.pc = "handle"]
    /\ UNCHANGED <<h, input, phase, admitted, dataset, pool, req>>

\* lines 76-106: the result is turned into the error run returns
HandleResult ==
    /\ cli.pc = "handle"
    /\ cli' = ReturnRun([cli EXCEPT !.logged = handleResult(cli.res).logged],
                        handleResult(cli.res).err)
    /\ UNCHANGED <<h, input, phase, admitted, dataset, pool, req>>

InitClient ==
    /\ \E file \in ConfigFiles :
        /\ file.deny = <<>> /\ file.maxRows = 0 /\ file.timeout = 0 /\ file.maxOpen = 0
        /\ h = newHandler(file)
    /\ input = <<>>
    /\ phase = "off"
    /\ admitted = FALSE
    /\ dataset = 0
    /\ pool = [c \in Conns |-> "free"]
    /\ req = [r \in Reqs |-> IdleReq]
    /\ cli = [NoRun EXCEPT !.pc = "flags"]

NextClient == ParseFlags \/ Connect \/ CallTool \/ HandleResult

SpecClient == InitClient /\ [][NextClient]_vars

\* the session is closed exactly once when run has returned after a Connect
\* that succeeded, and is open and unclosed until then
ClosedOnce ==
    /\ cli.calls <= 1
    /\ IF cli.connected = "ok"
        THEN IF cli.pc = "done"
                THEN cli.session = "closed" /\ cli.closes = 1
                ELSE cli.session = "open" /\ cli.closes = 0
        ELSE cli.session = "none" /\ cli.closes = 0

\* no CallTool without a query and a session
NoCallWithoutSession ==
    (cli.pc = "done" /\ cli.connected # "ok") => (~cli.err.nil /\ cli.calls = 0)

\* C22 as stated: once Connect has succeeded the session is closed exactly
\* once on every exit path; with an empty query or a failed Connect run
\* returns an error without calling CallTool; a tool result with the failure
\* flag makes run return an error built from the structured content when
\* present, else from the first text content.
Orig_C22_ErrorFromStructuredElseText ==
    /\ ClosedOnce
    /\ NoCallWithoutSession
    /\ (cli.pc = "done" /\ ~cli.res.nil /\ cli.res.IsError) =>
        /\ ~cli.err.nil
        /\ Len(cli.err.msg) = 2
        /\ IF cli.res.StructuredContent # "nil"
            THEN cli.err.msg[2] = <<"json", cli.res.StructuredContent>>
            ELSE \E i \in 1..Len(cli.res.Content) :
                    /\ cli.res.Content[i].type = "text"
                    /\ \A k \in 1..(i - 1) : cli.res.Content[k].type # "text"
                    /\ cli.err.msg[2] = cli.res.Content[i].Text

\* C22: once Connect has succeeded the session is closed exactly once on
\* every exit path; with an empty query or a failed Connect run returns an
\* error without calling CallTool; a tool result with the failure flag always
\* makes run return an error, built from the structured content when that is
\* present and can be encoded, else from the first text content when there
\* is one, else the bare message "tool failed".
Thm_C22_SessionClosedAndToolErrorReported ==
    /\ ClosedOnce
    /\ NoCallWithoutSession
    /\ (cli.pc = "done" /\ ~cli.res.nil /\ cli.res.IsError) =>
        /\ ~cli.err.nil
        /\ cli.err.msg[1] = "tool failed"
        /\ IF cli.res.StructuredContent \notin {"nil", "unencodable"}
            THEN cli.err.msg = <<"tool failed", <<"json", cli.res.StructuredContent>>>>
           ELSE IF \E i \in 1..Len(cli.res.Content) : cli.res.Content[i].type = "text"
            THEN \E i \in 1..Len(cli.res.Content) :
                    /\ cli.res.Content[i].type = "text"
                    /\ \A k \in 1..(i - 1) : cli.res.Content[k].type # "text"
                    /\ cli.err.msg = <<"tool failed", cli.res.Content[i].Text>>
           ELSE cli.err.msg = <<"tool failed">>

\* run returned the error of a failed tool call that carried an image and a
\* text but no structured content, and closed its session
Wit_C22_ToolErrorFromText ==
    /\ cli.pc = "done"
    /\ cli.res.IsError
    /\ cli.res.StructuredContent = "nil"
    /\ cli.res.Content = <<Image, TextBad>>
    /\ cli.err = Error(<<"tool failed", "bad">>)
    /\ cli.session = "closed"
    /\ cli.closes = 1

\* C23: the row loop is bounded by the limit, not by the size of the result
\* set: at most max_rows rows are scanned and normalized, rows.Next is called
\* at most max_rows + 1 times, the row of the one extra advance that detects
\* truncation is never scanned; max_rows is the configured value when that
\* is positive and 1000 otherwise.
Thm_C23_LoopBoundedByLimit ==
    LET limit == IF h.config.MaxRows > 0 THEN h.config.MaxRows ELSE 1000
    IN \A r \in Reqs :
        /\ Calls(req[r].log, "Scan") <= limit
        /\ Len(req[r].results) <= limit
        /\ Calls(req[r].log, "Next") <= limit + 1
        /\ req[r].cursor <= limit + 1
        /\ req[r].cursor <= Calls(req[r].log, "Next")
        /\ req[r].truncated =>
            /\ req[r].cursor = limit + 1
            /\ Calls(req[r].log, "Scan") = limit
            /\ Calls(req[r].log, "Next") = limit + 1

\* a result set of at least two rows more than the limit was cut at the limit
Wit_C23_LargeResultCutAtLimit ==
    \E r \in Reqs :
        /\ Succeeded(r)
        /\ dataset >= MaxRows + 2
        /\ req[r].truncated
        /\ Calls(req[r].log, "Scan") = MaxRows
        /\ Calls(req[r].log, "Next") = MaxRows + 1

\* the calls that end a transaction
Endings(log) == Calls(log, "Commit") + Calls(log, "Rollback")

\* C24: every transaction that was opened is ended by exactly one call of
\* Commit or Rollback, never both and never neither, on every path of both
\* executors; Commit is called only after the statement, the column fetch,
\* every scan and the row iteration succeeded; the call comes before the
\* connection is released.
Thm_C24_ExactlyOneEnding ==
    \A r \in Reqs :
        LET q == req[r]
            end == IF Calls(q.log, "Commit") = 1
                     THEN FirstCall(q.log, "Commit", 1)
                     ELSE FirstCall(q.log, "Rollback", 1)
        IN /\ q.tx = "none" => Endings(q.log) = 0
           /\ q.tx = "active" => Endings(q.log) = 0 /\ q.pc # "done"
           /\ q.tx \notin {"none", "active"} =>
                /\ Endings(q.log) = 1
                /\ q.pc = "done"
                /\ FirstCall(q.log, "conn.Close", 1) > end
                /\ Calls(q.log, "conn.Close") = 1
                /\ \A c \in Conns : pool[c] # r
           /\ Calls(q.log, "Commit") = 1 =>
                /\ ~q.iterErr
                /\ Calls(q.log, "QueryContext") = 1
                /\ Calls(q.log, "Columns") = 1
                /\ Calls(q.log, "Scan") = q.rowCount
                /\ Calls(q.log, "Scan") = Len(q.results)
                /\ q.msg \in {"ok", "failed to finish transaction"}

\* one request committed after reading a row, another was rolled back when
\* its column fetch failed; each ended its transaction before the release
Wit_C24_CommitAndRollback ==
    /\ \E r \in Reqs :
        /\ Succeeded(r)
        /\ req[r].rowCount >= 1
        /\ Endings(req[r].log) = 1
        /\ SubSeq(req[r].log, Len(req[r].log) - 2, Len(req[r].log))
                = <<"Commit", "rows.Close", "conn.Close">>
    /\ \E r \in Reqs :
        /\ req[r].msg = "failed to fetch columns"
        /\ req[r].log = <<"Conn", "BeginTx", "QueryContext", "Columns", "Rollback",
                          "rows.Close", "conn.Close">>


(***************************************************************************)
(* The two executors compared.  A mysql_query call and a resource read    *)
(* that carry the same statement run runQuery and runQueryForResource     *)
(* against the same configuration and the same dataset.  The database     *)
(* behaved the same way towards both when the first failure it injected,  *)
(* if any, hit the same call at the same position.                         *)
(***************************************************************************)
Finished(r, kind) == req[r].pc = "done" /\ req[r].kind = kind /\ req[r].log # <<>>

SameBehaviour(t, s) ==
    /\ Finished(t, "tool")
    /\ Finished(s, "resource")
    /\ req[t].query = req[s].query
    /\ req[t].fault = req[s].fault

SameOutcome(t, s) ==
    /\ req[t].log = req[s].log
    /\ req[t].failed = req[s].failed
    /\ req[t].msg = req[s].msg
    /\ req[t].tx = req[s].tx
    /\ ~req[t].failed =>
        /\ req[t].out.Columns = req[s].out.Columns
        /\ req[t].out.Rows = req[s].out.Rows
        /\ req[t].out.RowCount = req[s].out.RowCount
        /\ req[t].out.Truncated = req[s].out.Truncated

\* C25: for the same query text, configuration and database behaviour,
\* including the same injected failure at the same step, runQuery and
\* runQueryForResource make the same sequence of database calls, succeed or
\* fail together, and on success return the same columns, rows, rowCount
\* and truncated.
Thm_C25_ExecutorsEquivalent ==
    \A t, s \in Reqs : SameBehaviour(t, s) => SameOutcome(t, s)

\* a tool call and a resource read with the same statement have both lost
\* the same row scan and have both rolled back
Wit_C25_SameScanFailure ==
    \E t, s \in Reqs :
        /\ SameBehaviour(t, s)
        /\ req[t].fault.at = "scan"
        /\ req[t].cursor = 2
        /\ req[t].msg = "failed to read row"
        /\ req[s].tx = "rolledback"
====
